---- MODULE Spec2Model ----
(***************************************************************************)
(* A model of cairo_sandbox: the parameter model (params/gtk.py,           *)
(* params/text.py) and the script execution engine (script.py,             *)
(* cairo_sandbox.py).                                                      *)
(*                                                                         *)
(* Numbers are modelled as integers (the source uses Python int/float);    *)
(* text is a sequence of one-character strings, so that parsing is a       *)
(* computation and not the identity.                                       *)
(***************************************************************************)
EXTENDS Integers, Sequences, FiniteSets, TLC

(***************************************************************************)
(* Bounds of the model.                                                    *)
(***************************************************************************)
\* longest environment text drawn as an override
MaxTextLen == 3
\* most statements in the init part of a script
MaxInitLen == 2

(***************************************************************************)
(* Values.  Every Python value the model handles is a record whose tag t   *)
(* says what it is; v is the payload.                                      *)
(***************************************************************************)
None == [t |-> "none", v |-> <<>>]
Num(n) == [t |-> "num", v |-> <<n>>]
Bool(b) == [t |-> "bool", v |-> <<b>>]
Str(s) == [t |-> "str", v |-> s]
Pattern(r, g, b, a) == [t |-> "pattern", v |-> <<r, g, b, a>>]
Rgba(r, g, b, a) == [t |-> "tuple", v |-> <<r, g, b, a>>]
PointV(x, y) == [t |-> "point", v |-> <<x, y>>]

IsNum(x) == x.t = "num"
NumOf(x) == x.v[1]

\* an outcome of a call: it returned val, or raised the exception exc
Returned(val) == [exc |-> "none", val |-> val]
Raised(e) == [exc |-> e, val |-> None]

(***************************************************************************)
(* Text and its parsing: int(text) / float(text) of Python on the          *)
(* alphabet of the model.                                                  *)
(***************************************************************************)
Chars == {"0", "1", "5", "-", "x"}
Digits == {"0", "1", "5"}

DigitVal(c) == IF c = "0" THEN 0 ELSE IF c = "1" THEN 1 ELSE 5

RECURSIVE TextsOfLen(_)
TextsOfLen(n) ==
    IF n = 0 THEN {<<>>}
    ELSE {Append(s, c) : s \in TextsOfLen(n - 1), c \in Chars}

Texts == UNION {TextsOfLen(n) : n \in 0..MaxTextLen}

RECURSIVE DigitsValue(_)
\* the value of a non-empty sequence of digits, most significant first
DigitsValue(s) ==
    IF Len(s) = 0 THEN 0
    ELSE 10 * DigitsValue(SubSeq(s, 1, Len(s) - 1)) + DigitVal(s[Len(s)])

AllDigits(s) == Len(s) > 0 /\ \A i \in 1..Len(s) : s[i] \in Digits

\* type(self.default)(text) for a numeric default: an optional sign and digits
ParseNumber(text) ==
    IF AllDigits(text) THEN Returned(Num(DigitsValue(text)))
    ELSE IF Len(text) > 1 /\ text[1] = "-" /\ AllDigits(Tail(text))
         THEN Returned(Num(0 - DigitsValue(Tail(text))))
         ELSE Raised("ValueError")

(***************************************************************************)
(* Parameter declarations: what a script writes in its init part, e.g.     *)
(* Numeric(0, 100, 1, 50) or Choice(["x", "1x"], "x").                     *)
(***************************************************************************)
\* math.pi * 2, in the integer angle unit of the model (an eighth of a turn)
TwoPi == 8

ListAlts(members) == [isDict |-> FALSE, keys |-> members, vals |-> members]
DictAlts(keys, vals) == [isDict |-> TRUE, keys |-> keys, vals |-> vals]
NoAlts == ListAlts(<<>>)

Decl(kind, default, lower, upper, alts) ==
    [kind |-> kind, default |-> default, lower |-> lower, upper |-> upper,
     alts |-> alts]

LabelA == <<"x">>
LabelB == <<"1", "x">>
LabelC == <<"5">>

AngleDecls ==
    {Decl("Angle", d, None, None, NoAlts) :
        d \in {Num(0), Num(3), Num(TwoPi + 1), Str(LabelA)}}
ChoiceDecls ==
    {Decl("Choice", d, None, None, a) :
        d \in {Str(LabelA), Str(LabelB), Str(LabelC)},
        a \in {ListAlts(<<Str(LabelA), Str(LabelB)>>),
               DictAlts(<<Str(LabelA), Str(LabelB)>>, <<Num(10), Num(20)>>)}}
ColorDecls ==
    {Decl("Color", d, None, None, NoAlts) : d \in {Rgba(1, 0, 0, 1), Str(LabelA)}}
CustomDecls == {Decl("Custom", None, None, None, NoAlts)}
FontDecls ==
    {Decl("Font", d, None, None, NoAlts) : d \in {Str(LabelA), None, Num(1)}}
ImageDecls ==
    {Decl("Image", d, None, None, NoAlts) : d \in {None, Pattern(0, 0, 0, 1)}}
InfiniteDecls ==
    {Decl("Infinite", d, None, None, NoAlts) : d \in {Num(1), Num(-5), Str(LabelA)}}
NumericDecls ==
    {Decl("Numeric", Num(d), Num(l), Num(u), NoAlts) :
        d \in {0, 50, 100, 150}, l \in {0, 10}, u \in {100}}
PointDecls ==
    {Decl("Point", d, None, None, NoAlts) : d \in {PointV(1, 5), None}}
ScriptDecls == {Decl("Script", Str(LabelA), None, None, NoAlts)}
TableDecls == {Decl("Table", Num(1), None, None, NoAlts)}
TextDecls ==
    {Decl("Text", d, None, None, NoAlts) : d \in {Str(LabelA), None}}
ToggleDecls ==
    {Decl("Toggle", d, None, None, NoAlts) : d \in {Bool(TRUE), Bool(FALSE), Num(1)}}

Decls ==
    AngleDecls \cup ChoiceDecls \cup ColorDecls \cup CustomDecls \cup FontDecls
    \cup ImageDecls \cup InfiniteDecls \cup NumericDecls \cup PointDecls
    \cup ScriptDecls \cup TableDecls \cup TextDecls \cup ToggleDecls

(***************************************************************************)
(* Parameter objects.  One record shape for every variant:                 *)
(*   hasDefault  the attribute self.default exists                         *)
(*   value       self.value (Font, Image, Infinite)                        *)
(*   adjustment  self.adjustment: None, or the Gtk.Adjustment's value      *)
(*   widget      "noattr" (self.widget never assigned), "None", "made"     *)
(*   active      the live content of the widget once made                  *)
(***************************************************************************)
NoObj ==
    [kind |-> "none", hasDefault |-> FALSE, default |-> None, lower |-> None,
     upper |-> None, alts |-> NoAlts, value |-> None, adjustment |-> None,
     saved_value |-> None, widget |-> "noattr", active |-> None,
     default_row |-> 0]

Built(obj) == [exc |-> "none", obj |-> obj]
Failed(e) == [exc |-> e, obj |-> NoObj]

\* isinstance(value, (float, int, ...)): bool is a subclass of int
IsNumber(x) == x.t \in {"num", "bool"}
IsStr(x) == x.t = "str"

\* x in seq
Member(x, seq) == \E i \in 1..Len(seq) : seq[i] = x
\* seq.index(x): the first position (counted from 1 here) holding x
IndexOf(x, seq) == CHOOSE i \in 1..Len(seq) : seq[i] = x /\ \A j \in 1..(i - 1) : seq[j] # x
\* the last position holding x: the loops of ChoiceParameter.__init__ overwrite default_row
LastIndexOf(x, seq) == CHOOSE i \in 1..Len(seq) : seq[i] = x /\ \A j \in (i + 1)..Len(seq) : seq[j] # x
SameType(seq) == \A i \in 1..Len(seq) : seq[i].t = seq[1].t

Clamp(x, lo, hi) == IF x < lo THEN lo ELSE IF x > hi THEN hi ELSE x

\* the attributes every constructor copies from its arguments
ObjOf(d) ==
    [NoObj EXCEPT !.kind = d.kind, !.lower = d.lower, !.upper = d.upper,
                  !.alts = d.alts]

(***************************************************************************)
(* params/gtk.py: the constructors, makeWidget and getValue.               *)
(***************************************************************************)
GtkAngle(d) ==
    IF ~IsNumber(d.default) THEN Failed("TypeError")
    ELSE Built([ObjOf(d) EXCEPT !.hasDefault = TRUE, !.default = d.default,
                    !.saved_value = d.default,
                    !.adjustment = Num(Clamp(NumOf(d.default), 0, TwoPi))])

GtkChoice(d) ==
    IF ~Member(d.default, d.alts.keys) THEN Failed("ValueError")
    ELSE IF d.alts.isDict /\ \E i \in 1..Len(d.alts.keys) : ~IsStr(d.alts.keys[i])
         THEN Failed("TypeError")
    ELSE IF ~SameType(d.alts.vals) THEN Failed("TypeError")
    ELSE Built([ObjOf(d) EXCEPT !.default_row = LastIndexOf(d.default, d.alts.keys) - 1])

GtkColor(d) ==
    IF d.default.t # "tuple" THEN Failed("TypeError")
    ELSE Built([ObjOf(d) EXCEPT !.hasDefault = TRUE, !.default = d.default])

GtkCustom(d) == Built(ObjOf(d))

GtkFont(d) ==
    IF d.default.t \notin {"str", "none"} THEN Failed("TypeError")
    ELSE Built([ObjOf(d) EXCEPT !.hasDefault = TRUE, !.default = d.default,
                    !.value = d.default, !.widget = "None"])

GtkImage(d) ==
    IF d.default.t \notin {"str", "pattern", "none"} THEN Failed("TypeError")
    ELSE Built([ObjOf(d) EXCEPT !.hasDefault = TRUE, !.default = d.default,
                    !.value = d.default])

GtkInfinite(d) ==
    IF ~IsNumber(d.default) THEN Failed("TypeError")
    ELSE Built([ObjOf(d) EXCEPT !.hasDefault = TRUE, !.default = d.default,
                    !.value = d.default, !.saved_value = d.default])

GtkNumeric(d) ==
    IF ~(IsNumber(d.lower) /\ IsNumber(d.upper) /\ IsNumber(d.default))
    THEN Failed("TypeError")
    ELSE Built([ObjOf(d) EXCEPT !.hasDefault = TRUE, !.default = d.default])

GtkPoint(d) ==
    IF d.default.t # "point" THEN Failed("TypeError")
    ELSE Built([ObjOf(d) EXCEPT !.hasDefault = TRUE, !.default = d.default])

GtkScript(d) ==
    IF ~IsStr(d.default) THEN Failed("TypeError") ELSE Built(ObjOf(d))

GtkTable(d) ==
    Built([ObjOf(d) EXCEPT !.hasDefault = TRUE, !.default = d.default])

GtkText(d) ==
    IF ~IsStr(d.default) THEN Failed("TypeError")
    ELSE Built([ObjOf(d) EXCEPT !.hasDefault = TRUE, !.default = d.default,
                    !.widget = "None"])

GtkToggle(d) ==
    IF d.default.t # "bool" THEN Failed("TypeError")
    ELSE Built([ObjOf(d) EXCEPT !.hasDefault = TRUE, !.default = d.default])

GtkConstruct(d) ==
    CASE d.kind = "Angle" -> GtkAngle(d)
      [] d.kind = "Choice" -> GtkChoice(d)
      [] d.kind = "Color" -> GtkColor(d)
      [] d.kind = "Custom" -> GtkCustom(d)
      [] d.kind = "Font" -> GtkFont(d)
      [] d.kind = "Image" -> GtkImage(d)
      [] d.kind = "Infinite" -> GtkInfinite(d)
      [] d.kind = "Numeric" -> GtkNumeric(d)
      [] d.kind = "Point" -> GtkPoint(d)
      [] d.kind = "Script" -> GtkScript(d)
      [] d.kind = "Table" -> GtkTable(d)
      [] d.kind = "Text" -> GtkText(d)
      [] d.kind = "Toggle" -> GtkToggle(d)

\* param.makeWidget(): the widget's content starts from the default
GtkMakeWidget(p) ==
    CASE p.kind = "Choice" -> [p EXCEPT !.widget = "made", !.active = Num(p.default_row)]
      [] p.kind = "Color" -> [p EXCEPT !.widget = "made", !.active = p.default]
      [] p.kind = "Font" -> [p EXCEPT !.widget = "made"]
      [] p.kind = "Image" -> [p EXCEPT !.widget = "made"]
      [] p.kind = "Numeric" ->
            [p EXCEPT !.adjustment =
                Num(Clamp(NumOf(p.default), NumOf(p.lower), NumOf(p.upper)))]
      [] p.kind = "Text" -> [p EXCEPT !.widget = "made", !.active = p.default]
      [] p.kind = "Toggle" -> [p EXCEPT !.widget = "made", !.active = p.default]
      [] OTHER -> p

\* self.alternatives[self.store[i][self.value_col]] for the active row i
ChoiceLookup(p, row) ==
    IF p.alts.isDict
    THEN p.alts.vals[IndexOf(p.alts.keys[row + 1], p.alts.keys)]
    ELSE p.alts.vals[row + 1]

GtkGetValue(p) ==
    CASE p.kind = "Angle" -> Returned(p.adjustment)
      [] p.kind = "Choice" ->
            IF p.widget # "made" THEN Raised("AttributeError")
            ELSE IF p.active = None THEN Returned(None)
            ELSE Returned(ChoiceLookup(p, NumOf(p.active)))
      [] p.kind = "Color" ->
            IF p.widget # "made" THEN Raised("AttributeError")
            ELSE Returned([t |-> "pattern", v |-> p.active.v])
      [] p.kind \in {"Font", "Image", "Infinite"} -> Returned(p.value)
      [] p.kind = "Numeric" ->
            IF p.adjustment = None THEN Raised("AttributeError")
            ELSE Returned(p.adjustment)
      [] p.kind \in {"Text", "Toggle"} ->
            IF p.widget # "made" THEN Raised("AttributeError")
            ELSE Returned(p.active)
      [] OTHER ->
            IF p.hasDefault THEN Returned(p.default) ELSE Raised("AttributeError")

(***************************************************************************)
(* params/text.py: the constructors, parse and getParamValue.              *)
(***************************************************************************)
TextAngle(d) ==
    IF ~IsNumber(d.default) THEN Failed("TypeError")
    ELSE Built([ObjOf(d) EXCEPT !.hasDefault = TRUE, !.default = d.default])

\* self.default is alternatives[default] for a dict, alternatives.index(default)
\* for a list
TextChoice(d) ==
    IF d.alts.isDict
    THEN IF ~Member(d.default, d.alts.keys) THEN Failed("KeyError")
         ELSE Built([ObjOf(d) EXCEPT !.hasDefault = TRUE,
                        !.default = d.alts.vals[IndexOf(d.default, d.alts.keys)]])
    ELSE IF ~Member(d.default, d.alts.keys) THEN Failed("ValueError")
         ELSE Built([ObjOf(d) EXCEPT !.hasDefault = TRUE,
                        !.default = Num(IndexOf(d.default, d.alts.keys) - 1)])

TextColor(d) ==
    IF d.default.t # "tuple" THEN Failed("TypeError")
    ELSE Built([ObjOf(d) EXCEPT !.hasDefault = TRUE,
                    !.default = [t |-> "pattern", v |-> d.default.v]])

TextCustom(d) == Built(ObjOf(d))

TextFont(d) ==
    IF d.default.t \notin {"str", "none"} THEN Failed("TypeError")
    ELSE Built([ObjOf(d) EXCEPT !.hasDefault = TRUE, !.default = d.default])

TextImage(d) ==
    IF d.default.t \notin {"str", "pattern", "none"} THEN Failed("TypeError")
    ELSE Built([ObjOf(d) EXCEPT !.hasDefault = TRUE, !.default = d.default])

TextInfinite(d) ==
    IF ~IsNumber(d.default) THEN Failed("TypeError")
    ELSE Built([ObjOf(d) EXCEPT !.hasDefault = TRUE, !.default = d.default])

TextNumeric(d) ==
    IF ~(IsNumber(d.lower) /\ IsNumber(d.upper) /\ IsNumber(d.default))
    THEN Failed("TypeError")
    ELSE Built([ObjOf(d) EXCEPT !.hasDefault = TRUE, !.default = d.default])

TextPoint(d) ==
    IF d.default.t # "point" THEN Failed("TypeError")
    ELSE Built([ObjOf(d) EXCEPT !.hasDefault = TRUE, !.default = d.default])

TextScript(d) ==
    IF ~IsStr(d.default) THEN Failed("TypeError") ELSE Failed("NotImplementedError")

TextTable(d) == Failed("NotImplementedError")

TextText(d) ==
    IF ~IsStr(d.default) THEN Failed("TypeError")
    ELSE Built([ObjOf(d) EXCEPT !.hasDefault = TRUE, !.default = d.default])

TextToggle(d) ==
    IF d.default.t # "bool" THEN Failed("TypeError")
    ELSE Built([ObjOf(d) EXCEPT !.hasDefault = TRUE, !.default = d.default])

TextConstruct(d) ==
    CASE d.kind = "Angle" -> TextAngle(d)
      [] d.kind = "Choice" -> TextChoice(d)
      [] d.kind = "Color" -> TextColor(d)
      [] d.kind = "Custom" -> TextCustom(d)
      [] d.kind = "Font" -> TextFont(d)
      [] d.kind = "Image" -> TextImage(d)
      [] d.kind = "Infinite" -> TextInfinite(d)
      [] d.kind = "Numeric" -> TextNumeric(d)
      [] d.kind = "Point" -> TextPoint(d)
      [] d.kind = "Script" -> TextScript(d)
      [] d.kind = "Table" -> TextTable(d)
      [] d.kind = "Text" -> TextText(d)
      [] d.kind = "Toggle" -> TextToggle(d)

\* a parse that converts the text and skips the range check
NumericParseUnchecked(p, text) == ParseNumber(text)

\* NumericParameter.parse: convert, then check the range
NumericParse(p, text) ==
    LET r == ParseNumber(text) IN
    IF r.exc # "none" THEN r
    ELSE IF NumOf(p.lower) <= NumOf(r.val) /\ NumOf(r.val) <= NumOf(p.upper)
         THEN r
         ELSE Raised("ValueError")

\* ChoiceParameter.parse: the membership test, then alternatives[text].  The
\* message of the first raise is itself malformed and raises IndexError; a list
\* indexed by a string raises TypeError.
ChoiceParse(p, text) ==
    IF ~Member(Str(text), p.alts.keys) THEN Raised("IndexError")
    ELSE IF p.alts.isDict
         THEN Returned(p.alts.vals[IndexOf(Str(text), p.alts.keys)])
         ELSE Raised("TypeError")

\* ColorParameter.parse: eight hexadecimal digits, AARRGGBB
ColorParse(p, text) ==
    IF Len(text) # 8 \/ ~AllDigits(text) THEN Raised("ValueError")
    ELSE Returned(Pattern(16 * DigitVal(text[3]) + DigitVal(text[4]),
                          16 * DigitVal(text[5]) + DigitVal(text[6]),
                          16 * DigitVal(text[7]) + DigitVal(text[8]),
                          16 * DigitVal(text[1]) + DigitVal(text[2])))

ToggleParse(p, text) ==
    IF text = <<"t", "r", "u", "e">> THEN Returned(Bool(TRUE))
    ELSE IF text = <<"f", "a", "l", "s", "e">> THEN Returned(Bool(FALSE))
    ELSE Raised("ValueError")

TextParse(p, text) ==
    CASE p.kind \in {"Angle", "Infinite"} -> ParseNumber(text)
      [] p.kind = "Choice" -> ChoiceParse(p, text)
      [] p.kind = "Color" -> ColorParse(p, text)
      [] p.kind \in {"Font", "Text"} -> Returned(Str(text))
      [] p.kind = "Image" -> Raised("Error")
      [] p.kind = "Numeric" -> NumericParse(p, text)
      [] p.kind = "Toggle" -> ToggleParse(p, text)
      [] OTHER -> Raised("NotImplementedError")

\* os.environ restricted to the names of the model: a function from the names
\* that are set to their text
NoEnv == [n \in {} |-> <<>>]

\* ParameterGroup.getParamValue
TextGetParamValue(env, name, p) ==
    IF name \in DOMAIN env THEN TextParse(p, env[name])
    ELSE IF p.hasDefault THEN Returned(p.default) ELSE Raised("AttributeError")

(***************************************************************************)
(* ParameterGroup: an ordered mapping name -> parameter, and a resolution. *)
(***************************************************************************)
DefaultWidth == 640
DefaultHeight == 480

\* ParameterGroup.__init__
NewGroup == [params |-> <<>>, resolution |-> <<DefaultWidth, DefaultHeight>>]

Names(g) == {g.params[i].name : i \in 1..Len(g.params)}

\* a define that rebinds a name already present instead of raising
DefineOverwrite(g, name, param) ==
    IF name \in Names(g)
    THEN [exc |-> "none",
          group |-> [g EXCEPT !.params =
                        [i \in 1..Len(@) |->
                            IF @[i].name = name THEN [name |-> name, param |-> param]
                            ELSE @[i]]]]
    ELSE [exc |-> "none",
          group |-> [g EXCEPT !.params = Append(@, [name |-> name, param |-> param])]]

\* ParameterGroup.define: [exc, group]
Define(g, name, param) ==
    IF name \in Names(g)
    THEN [exc |-> "ValueError", group |-> g]
    ELSE [exc |-> "none",
          group |-> [g EXCEPT !.params = Append(@, [name |-> name, param |-> param])]]

\* ParameterGroup.setResolution
SetResolution(g, x, y) == [g EXCEPT !.resolution = <<x, y>>]

\* the outcome of resolving entry i of group g under a backend
EntryValue(backend, env, e) ==
    IF backend = "gtk" THEN GtkGetValue(e.param)
    ELSE TextGetParamValue(env, e.name, e.param)

\* ParameterGroup.getValues: [exc, vals]; the comprehension stops at the first
\* entry whose resolution raises
GetValues(backend, env, g) ==
    LET out == [i \in 1..Len(g.params) |-> EntryValue(backend, env, g.params[i])]
        bad == {i \in 1..Len(g.params) : out[i].exc # "none"}
    IN  IF bad # {}
        THEN [exc |-> out[CHOOSE i \in bad : \A j \in bad : i <= j].exc, vals |-> <<>>]
        ELSE [exc |-> "none",
              vals |-> [i \in 1..Len(g.params) |->
                          [name |-> g.params[i].name, value |-> out[i].val]]]

(***************************************************************************)
(* Scripts.  A script source either fails to compile, or is a program with *)
(* an init part (statements run when __name__ is "init") and a render part *)
(* (run when __name__ is "render").                                        *)
(*   init        define(name, <constructor>) and setResolution(x, y) calls *)
(*   initRaises  the init part ends by raising                             *)
(*   render      draws: translate(1, 1) and move_to(2, 3), leaving a path  *)
(*               behind; raises: the render part ends by raising.  The     *)
(*               scripts modelled keep the transformation invertible and   *)
(*               balance their own save/restore calls.                     *)
(***************************************************************************)
InitStmt(op, name, decl, x, y) ==
    [op |-> op, name |-> name, decl |-> decl, x |-> x, y |-> y]

DefA == InitStmt("define", "A", Decl("Numeric", Num(50), Num(0), Num(100), NoAlts), 0, 0)
DefB == InitStmt("define", "B", Decl("Infinite", Num(1), None, None, NoAlts), 0, 0)
SetRes == InitStmt("setResolution", "", Decl("Custom", None, None, None, NoAlts), 800, 600)

InitStmts == {DefA, DefB, SetRes}

RECURSIVE InitsOfLen(_)
InitsOfLen(n) ==
    IF n = 0 THEN {<<>>}
    ELSE {Append(s, c) : s \in InitsOfLen(n - 1), c \in InitStmts}

Inits == UNION {InitsOfLen(n) : n \in 0..MaxInitLen}

Renders == [raises : BOOLEAN, draws : {TRUE}]

BadSource ==
    [compiles |-> FALSE, init |-> <<>>, initRaises |-> FALSE,
     render |-> [raises |-> FALSE, draws |-> FALSE]]

Scripts ==
    {[compiles |-> TRUE, init |-> i, initRaises |-> r, render |-> rd] :
        i \in Inits, r \in BOOLEAN, rd \in Renders}
    \cup {BadSource}

\* the constructor a script names, under the backend bound in the init environment
Construct(backend, d) ==
    IF backend = "gtk" THEN GtkConstruct(d) ELSE TextConstruct(d)

\* one statement of the init part against group g: [exc, group]
ExecStmt(backend, stmt, g) ==
    IF stmt.op = "setResolution"
    THEN [exc |-> "none", group |-> SetResolution(g, stmt.x, stmt.y)]
    ELSE LET c == Construct(backend, stmt.decl) IN
         IF c.exc # "none" THEN [exc |-> c.exc, group |-> g]
         ELSE Define(g, stmt.name, c.obj)

RECURSIVE ExecStmts(_, _, _)
ExecStmts(backend, stmts, g) ==
    IF stmts = <<>> THEN [exc |-> "none", group |-> g]
    ELSE LET r == ExecStmt(backend, Head(stmts), g) IN
         IF r.exc # "none" THEN r ELSE ExecStmts(backend, Tail(stmts), r.group)

\* exec(self.prog, <init environment>): [exc, group]; what was defined before
\* the failure stays in the group
ExecInit(backend, script, g) ==
    LET r == ExecStmts(backend, script.init, g) IN
    IF r.exc = "none" /\ script.initRaises
    THEN [exc |-> "Exception", group |-> r.group]
    ELSE r

(***************************************************************************)
(* The drawing context, as far as run() reads it: the current              *)
(* transformation x' = (s * x + x0) / den, y' = (s * y + y0) / den.        *)
(***************************************************************************)
Identity == [s |-> 1, x0 |-> 0, y0 |-> 0, den |-> 1]
\* cr.scale(k, k)
Scale(m, k) == [m EXCEPT !.s = @ * k]
\* cr.translate(tx, ty)
Translate(m, tx, ty) == [m EXCEPT !.x0 = @ + m.s * tx, !.y0 = @ + m.s * ty]
\* Matrix.invert()
Invert(m) == [s |-> m.den, x0 |-> 0 - m.x0, y0 |-> 0 - m.y0, den |-> m.s]
\* Matrix.transform_point(x, y)
TransformPoint(m, p) ==
    <<(m.s * p[1] + m.x0) \div m.den, (m.s * p[2] + m.y0) \div m.den>>

\* the scales the host hands to run()
Scales == {2}

(***************************************************************************)
(* State.                                                                  *)
(***************************************************************************)
VARIABLES
    \* the Script object and its configuration
    variant,            \* "script" (script.py) or "sandbox" (cairo_sandbox.py)
    halt_on_exc, render_tb,
    env,                \* os.environ, read by the text backend
    prog,               \* <<>> for None, or <<the compiled script>>
    params,             \* <<>> for None, or <<the parameter group>>
    load_error,         \* "None" or the exception recorded
    transform, inverse_transform,   \* <<>> until set, then <<matrix>>
    \* what the last call did
    call,               \* [op, exc]: exc is the exception that left the call
    frame,              \* what the last call drew (nothing, for a reload)
    prevRaised,         \* the render phase of the most recent run() before the
                        \* last call raised
    \* one parameter of one backend
    pbackend, pdecl, pparam, penv, pwidget, presult,
    \* one parameter group
    group, gcall,
    \* the pointer: a DragController and the events delivered to it
    ctl,
    \* the file watcher thread and the UI thread of a runner
    wt,
    \* the reader thread and the frames that read its slot
    rd,
    \* the headless batch runner (offline.py)
    batch,
    \* a drawing context and a Save/Box scope around a body
    scope,
    \* a rectangle being split
    split

svars ==
    <<variant, halt_on_exc, render_tb, env, prog, params, load_error, transform,
      inverse_transform, call, frame, prevRaised>>
pvars == <<pbackend, pdecl, pparam, penv, pwidget, presult>>
gvars == <<group, gcall>>
xvars == <<ctl, wt, rd, batch, scope, split>>
vars == <<svars, pvars, gvars, xvars>>

\* params.gtk is bound by cairo_sandbox.py, params.text by the runners of script.py
Backend(v) == IF v = "sandbox" THEN "gtk" ELSE "text"

NoCall == [op |-> "none", exc |-> "none"]
\* ran: run() was the call; renderExc: what the render phase raised; ops: the
\* drawing calls in order; matrix, point: the context's transformation and
\* current point when the script's scope ended; crossAt: <<>> or <<where the
\* crosshair was drawn>>; errorText: the traceback was drawn; errorPrinted: the
\* traceback went to stderr; values: the 'params' binding of the frame
NoFrame ==
    [ran |-> FALSE, renderExc |-> "none", ops |-> <<>>, matrix |-> Identity,
     point |-> <<0, 0>>, crossAt |-> <<>>, errorText |-> FALSE,
     errorPrinted |-> FALSE, values |-> <<>>]

Envs == {NoEnv, "A" :> <<"5">>}

\* Script.__init__
SInit ==
    /\ variant \in {"script", "sandbox"}
    /\ halt_on_exc \in BOOLEAN
    /\ render_tb \in BOOLEAN
    /\ variant = "sandbox" => (~halt_on_exc /\ render_tb)
    /\ env \in Envs
    /\ variant = "sandbox" => env = NoEnv
    /\ prog = <<>>
    /\ params = <<>>
    /\ load_error = "None"
    /\ transform = <<>>
    /\ inverse_transform = <<>>
    /\ call = NoCall
    /\ frame = NoFrame
    /\ prevRaised = FALSE

\* Script.reload: the group is replaced, then the source is compiled, then the
\* init part runs.  A compile failure leaves the call by SyntaxError.
Reload(src) ==
    LET r == ExecInit(Backend(variant), src, NewGroup) IN
    /\ frame' = NoFrame
    /\ prevRaised' = IF frame.ran THEN frame.renderExc # "none" ELSE prevRaised
    /\ IF ~src.compiles
       THEN /\ params' = <<NewGroup>>
            /\ call' = [op |-> "reload", exc |-> "SyntaxError"]
            /\ UNCHANGED <<prog, load_error>>
       ELSE /\ params' = <<r.group>>
            /\ prog' = <<src>>
            /\ IF halt_on_exc
               THEN /\ call' = [op |-> "reload", exc |-> r.exc]
                    /\ UNCHANGED load_error
               ELSE /\ call' = [op |-> "reload", exc |-> "none"]
                    /\ load_error' = IF r.exc # "none" THEN r.exc ELSE load_error
    /\ UNCHANGED <<variant, halt_on_exc, render_tb, env, transform,
                   inverse_transform>>
    /\ UNCHANGED <<pvars, gvars, xvars>>

\* exec(self.prog, <render environment>): the environment is built first (it
\* resolves every parameter), then the render part runs
RenderPhase(backend, e, pg, ps) ==
    IF ps = <<>> THEN [exc |-> "AttributeError", drew |-> FALSE, values |-> <<>>]
    ELSE LET gv == GetValues(backend, e, ps[1]) IN
         IF gv.exc # "none" THEN [exc |-> gv.exc, drew |-> FALSE, values |-> <<>>]
         ELSE IF pg = <<>> THEN [exc |-> "TypeError", drew |-> FALSE, values |-> gv.vals]
         ELSE [exc |-> IF pg[1].render.raises THEN "Exception" ELSE "none",
               drew |-> pg[1].render.draws, values |-> gv.vals]

\* the drawing calls of run() up to the end of the script's scope
ScopeOps(v) ==
    <<"save">> \o (IF v = "script" THEN <<"scale">> ELSE <<>>) \o <<"exec">>
\* the two overlays drawn inside one shared scope
OverlayOpsShared == <<"save", "stroke_path", "crosshair", "restore">>
\* the two overlays, each in its own Save scope
OverlayOps == <<"save", "stroke_path", "restore", "save", "crosshair", "restore">>
\* the error text, in a Box scope
ErrorOps == <<"save", "show_text", "restore">>

\* an error display that ignores whether this frame raised
ErrorShownAlways(exc, tb) == tb
\* "if error is not None and self.render_tb" / "if error is not None"
ErrorShown(exc, tb) == exc # "none" /\ tb

\* Script.run
Run(k) ==
    LET r == RenderPhase(Backend(variant), env, prog, params)
        halts == halt_on_exc /\ r.exc # "none"
        m1 == IF variant = "script" THEN Scale(Identity, k) ELSE Identity
        m2 == IF r.drew THEN Translate(m1, 1, 1) ELSE m1
        pt == IF r.drew THEN <<2, 3>> ELSE <<0, 0>>
        text == ErrorShown(r.exc, render_tb)
    IN
    /\ prevRaised' = IF frame.ran THEN frame.renderExc # "none" ELSE prevRaised
    /\ IF halts
       THEN /\ call' = [op |-> "run", exc |-> r.exc]
            /\ frame' = [NoFrame EXCEPT !.ran = TRUE, !.renderExc = r.exc,
                            !.ops = ScopeOps(variant) \o <<"restore">>,
                            !.matrix = m2, !.point = pt, !.values = r.values]
            /\ UNCHANGED <<transform, inverse_transform>>
       ELSE /\ call' = [op |-> "run", exc |-> "none"]
            /\ transform' = <<m2>>
            /\ inverse_transform' = <<Invert(m2)>>
            /\ frame' = [ran |-> TRUE, renderExc |-> r.exc,
                         ops |-> ScopeOps(variant) \o <<"get_matrix", "restore">>
                                 \o OverlayOps \o (IF text THEN ErrorOps ELSE <<>>),
                         matrix |-> m2,
                         point |-> pt,
                         crossAt |-> <<TransformPoint(m2, pt)>>,
                         errorText |-> text,
                         errorPrinted |-> (r.exc # "none" /\ ~text),
                         values |-> r.values]
    /\ UNCHANGED <<variant, halt_on_exc, render_tb, env, prog, params, load_error>>
    /\ UNCHANGED <<pvars, gvars, xvars>>

\* the values the Script variables hold while another part of the model runs
SOff ==
    /\ variant = "none" /\ halt_on_exc = FALSE /\ render_tb = FALSE
    /\ env = NoEnv /\ prog = <<>> /\ params = <<>> /\ load_error = "None"
    /\ transform = <<>> /\ inverse_transform = <<>> /\ call = NoCall
    /\ frame = NoFrame /\ prevRaised = FALSE

(***************************************************************************)
(* One parameter: constructed by a backend, its widget made and used (gtk) *)
(* or its environment variable set (text), and its value resolved.         *)
(***************************************************************************)
\* the name the parameter is defined under
ParamName == "P"

NoResult == [done |-> FALSE, out |-> Raised("none")]

\* what a user can put into a made widget
WidgetContents(p) ==
    CASE p.kind = "Choice" -> {Num(i - 1) : i \in 1..Len(p.alts.keys)}
      [] p.kind = "Toggle" -> {Bool(TRUE), Bool(FALSE)}
      [] p.kind = "Numeric" -> {p.lower, p.upper}
      [] p.kind = "Text" -> {Str(LabelA), Str(LabelB)}
      [] OTHER -> {}

\* the widget's signal handlers storing the new content
SetContent(p, c) ==
    IF p.kind = "Numeric" THEN [p EXCEPT !.adjustment = c] ELSE [p EXCEPT !.active = c]

PInit ==
    /\ pbackend \in {"gtk", "text"}
    /\ pdecl \in Decls
    /\ pparam = Construct(pbackend, pdecl)
    /\ penv = NoEnv
    /\ pwidget = "none"
    /\ presult = NoResult

\* ParameterGroup.makeWidgets calling param.makeWidget()
PMakeWidget ==
    /\ pbackend = "gtk" /\ pparam.exc = "none" /\ pwidget = "none"
    /\ pparam' = [pparam EXCEPT !.obj = GtkMakeWidget(@)]
    /\ pwidget' = "made"
    /\ presult' = NoResult
    /\ UNCHANGED <<pbackend, pdecl, penv, svars, gvars, xvars>>

\* the user changes the widget
PInteract ==
    /\ pbackend = "gtk" /\ pparam.exc = "none" /\ pwidget # "none"
    /\ \E c \in WidgetContents(pparam.obj) :
          pparam' = [pparam EXCEPT !.obj = SetContent(@, c)]
    /\ pwidget' = "touched"
    /\ presult' = NoResult
    /\ UNCHANGED <<pbackend, pdecl, penv, svars, gvars, xvars>>

\* the operator starts the program with the environment variable named like
\* the parameter set
PSetEnv(text) ==
    /\ pbackend = "text" /\ pparam.exc = "none" /\ penv = NoEnv
    /\ penv' = (ParamName :> text)
    /\ presult' = NoResult
    /\ UNCHANGED <<pbackend, pdecl, pparam, pwidget, svars, gvars, xvars>>

\* value resolution: param.getValue() (gtk), getParamValue(name, param) (text)
PResolve ==
    /\ pparam.exc = "none"
    /\ presult' = [done |-> TRUE,
                   out |-> EntryValue(pbackend, penv,
                                      [name |-> ParamName, param |-> pparam.obj])]
    /\ UNCHANGED <<pbackend, pdecl, pparam, penv, pwidget, svars, gvars, xvars>>

POff ==
    /\ pbackend = "none" /\ pdecl = Decl("none", None, None, None, NoAlts)
    /\ pparam = Failed("none") /\ penv = NoEnv /\ pwidget = "none"
    /\ presult = NoResult

(***************************************************************************)
(* One parameter group and the calls a script makes on it.                 *)
(***************************************************************************)
GroupNames == {"A", "B", "C"}
GroupParams ==
    {GtkConstruct(d).obj :
        d \in {DefA.decl, DefB.decl, Decl("Toggle", Bool(TRUE), None, None, NoAlts)}}

NoGCall == [op |-> "none", name |-> "", param |-> NoObj, exc |-> "none", before |-> NewGroup]

GInit == group = NewGroup /\ gcall = NoGCall

\* params.define(name, param)
GDefine(name, param) ==
    LET r == Define(group, name, param) IN
    /\ group' = r.group
    /\ gcall' = [op |-> "define", name |-> name, param |-> param, exc |-> r.exc,
                 before |-> group]
    /\ UNCHANGED <<svars, pvars, xvars>>

\* params.setResolution(x, y)
GSetResolution(x, y) ==
    /\ group' = SetResolution(group, x, y)
    /\ gcall' = [op |-> "setResolution", name |-> "", param |-> NoObj, exc |-> "none",
                 before |-> group]
    /\ UNCHANGED <<svars, pvars, xvars>>

Resolutions == {<<800, 600>>, <<DefaultWidth, DefaultHeight>>}

GOff == group = NewGroup /\ gcall = NoGCall

\* the value a variable holds while its part of the model does not run
XOff ==
    /\ ctl = "off" /\ wt = "off" /\ rd = "off"
    /\ batch = "off" /\ scope = "off" /\ split = "off"

(***************************************************************************)
(* Specifications.                                                         *)
(***************************************************************************)
\* the script execution engine: any sequence of reload() and run() calls
Init == SInit /\ POff /\ GOff /\ XOff
Next ==
    \/ \E src \in Scripts : Reload(src)
    \/ \E k \in Scales : Run(k)
Spec == Init /\ [][Next]_vars

\* one parameter
InitParam == SOff /\ PInit /\ GOff /\ XOff
NextParam ==
    \/ PMakeWidget
    \/ PInteract
    \/ \E text \in Texts : PSetEnv(text)
    \/ PResolve
SpecParam == InitParam /\ [][NextParam]_vars

\* one parameter group
InitGroup == SOff /\ POff /\ GInit /\ XOff
NextGroup ==
    \/ \E name \in GroupNames, param \in GroupParams : GDefine(name, param)
    \/ \E res \in Resolutions : GSetResolution(res[1], res[2])
SpecGroup == InitGroup /\ [][NextGroup]_vars

(***************************************************************************)
(* Properties of the script execution engine (Spec).                       *)
(***************************************************************************)
\* C1: with halt_on_exc false, no failure of the script leaves the engine:
\* every reload() and every run() returns normally.
C1_Contained == ~halt_on_exc => call.exc = "none"

\* C2: a reload() whose source fails to compile leaves the compiled program
\* and the parameter group exactly as they were before the call.
C2_CompileFailureKeepsState ==
    [][(call'.op = "reload" /\ call'.exc = "SyntaxError" /\ prog # <<>>)
          => (prog' = prog /\ params' = params)]_vars

\* C3: after reload() of a script whose init part defines A, then B, then
\* raises, the group holds exactly A and B in that order, load_error is set,
\* and getValues() succeeds with entries for A and B only.
C3_InitIsolation ==
    (call.op = "reload" /\ call.exc # "SyntaxError" /\ prog # <<>>
        /\ prog[1].init = <<DefA, DefB>> /\ prog[1].initRaises)
    => /\ params # <<>>
       /\ [i \in 1..Len(params[1].params) |-> params[1].params[i].name] = <<"A", "B">>
       /\ load_error # "None"
       /\ LET gv == GetValues(Backend(variant), env, params[1]) IN
          /\ gv.exc = "none"
          /\ [i \in 1..Len(gv.vals) |-> gv.vals[i].name] = <<"A", "B">>

C6_FreshGroup ==
    (prog # <<>> /\ params # <<>>) =>
        params[1] = ExecInit(Backend(variant), prog[1], NewGroup).group

(***************************************************************************)
(* Properties of a parameter group (SpecGroup).                            *)
(***************************************************************************)
\* C7: define(name, param) with a name already in the group raises and leaves
\* the group unchanged: the entries, what each name is bound to, their order.
C7_DuplicateDefine ==
    (gcall.op = "define" /\ gcall.name \in Names(gcall.before)) =>
        /\ gcall.exc # "none"
        /\ Len(group.params) = Len(gcall.before.params)
        /\ \A i \in 1..Len(group.params) : group.params[i] = gcall.before.params[i]
        /\ group.resolution = gcall.before.resolution

\* a define of a bound name with another parameter, in a group of several
C7_Witness ==
    /\ gcall.op = "define" /\ gcall.name \in Names(gcall.before)
    /\ Len(group.params) >= 2
    /\ \E i \in 1..Len(group.params) :
          group.params[i].name = gcall.name /\ group.params[i].param # gcall.param

(***************************************************************************)
(* Properties of one parameter (SpecParam).                                *)
(***************************************************************************)
\* C8: for every variant of every backend, resolving the value right after
\* construction (no widget, no interaction, no environment override) returns
\* the declared default.
C8_RoundTrip ==
    (presult.done /\ pwidget = "none" /\ penv = NoEnv) =>
        presult.out = Returned(pdecl.default)

\* C9: under the text backend a Numeric(lower, upper) named P resolves to the
\* default when P is not in the environment, to the parsed number when P's
\* text parses to a value in [lower, upper] ("50" on Numeric(0, 100) gives
\* 50), and raises a range error when the parsed value is outside ("150").
C9_NumericOverride ==
    (pbackend = "text" /\ pdecl.kind = "Numeric" /\ presult.done) =>
        LET lo == NumOf(pdecl.lower)
            hi == NumOf(pdecl.upper)
        IN  IF penv = NoEnv THEN presult.out = Returned(pdecl.default)
            ELSE LET text == penv[ParamName]
                     n == ParseNumber(text)
                 IN  /\ (n.exc = "none" /\ lo <= NumOf(n.val) /\ NumOf(n.val) <= hi)
                           => presult.out = Returned(n.val)
                     /\ (n.exc = "none" /\ (NumOf(n.val) < lo \/ hi < NumOf(n.val)))
                           => presult.out.exc = "ValueError"
                     /\ (text = <<"5", "0">> /\ lo = 0 /\ hi = 100)
                           => presult.out = Returned(Num(50))
                     /\ (text = <<"1", "5", "0">> /\ lo = 0 /\ hi = 100)
                           => presult.out.exc = "ValueError"

\* P = "50" overriding the default 0 of a Numeric(0, 100)
C9_Witness ==
    /\ pbackend = "text" /\ pdecl.kind = "Numeric" /\ presult.done
    /\ pdecl.default = Num(0) /\ pdecl.lower = Num(0) /\ pdecl.upper = Num(100)
    /\ penv # NoEnv /\ penv[ParamName] = <<"5", "0">>
    /\ presult.out = Returned(Num(50))

\* C10: a Choice over a list or over a label-to-value map resolves to the
\* value of the selected alternative (the list member, the map's value; not
\* the label, not an index), for the default selection and for an override
\* naming a valid alternative; construction fails when the default is not a
\* member/key.
C10_ChoiceValue ==
    pdecl.kind = "Choice" =>
        LET keys == pdecl.alts.keys
            vals == pdecl.alts.vals
        IN  /\ ~Member(pdecl.default, keys) => pparam.exc # "none"
            /\ (presult.done /\ pwidget # "touched" /\ penv = NoEnv)
                  => presult.out = Returned(vals[IndexOf(pdecl.default, keys)])
            /\ (presult.done /\ penv # NoEnv /\ Member(Str(penv[ParamName]), keys))
                  => presult.out = Returned(vals[IndexOf(Str(penv[ParamName]), keys)])
            /\ (presult.done /\ pwidget = "touched")
                  => presult.out = Returned(vals[NumOf(pparam.obj.active) + 1])

\* C11: every run() builds its 'params' binding by resolving every defined
\* parameter anew: one entry per parameter of the current group, in order,
\* each holding the value the parameter resolves to now.
C11_FreshBinding ==
    (frame.ran /\ params # <<>>) =>
        LET g == params[1] IN
        /\ Len(frame.values) = Len(g.params)
        /\ \A i \in 1..Len(g.params) :
              /\ frame.values[i].name = g.params[i].name
              /\ Returned(frame.values[i].value)
                    = EntryValue(Backend(variant), env, g.params[i])

(***************************************************************************)
(* controller.py: the cursor state machine and the DragController.         *)
(* A cursor state is [kind, pos, origin]; origin is <<>> for Hover and     *)
(* Click, which have no such attribute, and <<point>> otherwise.           *)
(***************************************************************************)
\* largest pointer coordinate
MaxCoord == 1
\* DragEnd.drag_threshold
DragThreshold == 1

PointerPositions == (0..MaxCoord) \X (0..MaxCoord)
PointerEvents == {"press", "release", "move"}

Cursor(kind, pos, origin) == [kind |-> kind, pos |-> pos, origin |-> origin]

\* a state machine in which a release always yields Click
TransitionReleaseClicks(c, ev, p) ==
    IF ev = "release" THEN [exc |-> "none", cursor |-> Cursor("Click", p, <<>>)]
    ELSE [exc |-> "none", cursor |-> Cursor("Hover", p, <<>>)]

\* cursor.button_press(event) / button_release(event) / mouse_move(event) with
\* the event at p: [exc, cursor].  Click inherits its transitions from Hover;
\* DragEnd.button_release reads the undefined name rel.
Transition(c, ev, p) ==
    CASE c.kind \in {"Hover", "Click"} ->
            IF ev = "press"
            THEN [exc |-> "none", cursor |-> Cursor("DragBegin", p, <<c.pos>>)]
            ELSE [exc |-> "none", cursor |-> Cursor("Hover", p, <<>>)]
      [] c.kind = "DragBegin" ->
            IF ev = "press" THEN [exc |-> "none", cursor |-> Cursor("Hover", p, <<>>)]
            ELSE IF ev = "release"
                 THEN [exc |-> "none", cursor |-> Cursor("Click", p, <<>>)]
                 ELSE [exc |-> "none", cursor |-> Cursor("DragMove", p, c.origin)]
      [] c.kind = "DragMove" ->
            IF ev = "press" THEN [exc |-> "none", cursor |-> Cursor("Hover", p, <<>>)]
            ELSE IF ev = "release"
                 THEN [exc |-> "none", cursor |-> Cursor("DragEnd", p, c.origin)]
                 ELSE [exc |-> "none", cursor |-> Cursor("DragMove", p, c.origin)]
      [] c.kind = "DragEnd" ->
            IF ev = "release"
            THEN [exc |-> "NameError", cursor |-> c]
            ELSE [exc |-> "none", cursor |-> Cursor("Hover", p, <<>>)]

\* cursor.dispatch(callbacks): the callback each state calls
Callback(c) ==
    CASE c.kind = "Hover" -> "hover"
      [] c.kind = "Click" -> "click"
      [] c.kind = "DragBegin" -> "begin"
      [] c.kind = "DragMove" -> "drag"
      [] c.kind = "DragEnd" -> "drop"

\* DragController.__init__.  last: the event handled last, the cursor it
\* found, the exception that left the handler, the dispatch calls it made.
\* gest: how much of press, move, move, release (starting in Hover) the
\* events so far have matched, and where that press was.
CInit ==
    /\ ctl = [cursor |-> Cursor("Hover", <<0, 0>>, <<>>),
              last |-> [ev |-> "none", before |-> Cursor("Hover", <<0, 0>>, <<>>),
                        exc |-> "none", dispatched |-> <<>>],
              gest |-> [step |-> 0, press |-> <<0, 0>>]]
    /\ wt = "off" /\ rd = "off" /\ batch = "off" /\ scope = "off" /\ split = "off"

\* DragController.button_press / button_release / mouse_move
HandleEvent(ev, p) ==
    LET c == ctl.cursor
        r == Transition(c, ev, p)
        step == IF r.exc # "none" THEN 0
                ELSE IF ev = "press" /\ c.kind = "Hover" THEN 1
                ELSE IF ev = "move" /\ ctl.gest.step \in {1, 2} THEN ctl.gest.step + 1
                ELSE IF ev = "release" /\ ctl.gest.step = 3 THEN 4
                ELSE 0
    IN
    /\ ctl' = [cursor |-> r.cursor,
               last |-> [ev |-> ev, before |-> c, exc |-> r.exc,
                         dispatched |-> IF r.exc # "none" THEN <<>>
                                        ELSE <<[on |-> r.cursor,
                                                callback |-> Callback(r.cursor)]>>],
               gest |-> [step |-> step,
                         press |-> IF step = 1 THEN p
                                   ELSE IF step = 0 THEN <<0, 0>>
                                   ELSE ctl.gest.press]]
    /\ UNCHANGED <<svars, pvars, gvars, wt, rd, batch, scope, split>>

InitCursor == SOff /\ POff /\ GOff /\ CInit
NextCursor == \E ev \in PointerEvents, p \in PointerPositions : HandleEvent(ev, p)
SpecCursor == InitCursor /\ [][NextCursor]_vars

C13_DispatchOnce ==
    ctl.last.ev # "none" =>
        /\ ctl.last.exc = "none"
        /\ Len(ctl.last.dispatched) = 1
        /\ ctl.last.dispatched[1].on = ctl.cursor
        /\ ctl.last.dispatched[1].callback = Callback(ctl.cursor)

(***************************************************************************)
(* The file watcher thread and the UI thread of the interactive runners.   *)
(*   sandbox   cairo_sandbox.py: GUI.__init__ passes the bare name         *)
(*             on_change to watchFile when watchdog is importable, which   *)
(*             raises NameError; without watchdog nothing watches          *)
(*   explorer  cairo_explorer.py: the callback handed to the watcher is    *)
(*             the reload function itself                                  *)
(*   debuger   debuger.py: the callback is GObject.idle_add(debuger.load)  *)
(* A reload is three steps: the parameter group is replaced, the program   *)
(* is compiled and replaced, the init part runs.                           *)
(***************************************************************************)
\* most modifications of the watched file
MaxEvents == 4

Runners == {"sandbox", "explorer", "debuger"}

\* up: the GUI was constructed; watching: a watcher thread delivers events;
\* events: modifications so far; queue: reloads waiting on the idle queue;
\* uiPc: "idle", or "run" while run() is in progress on the UI thread;
\* wPc: "idle", or the reload step the watcher thread executes next;
\* loaded: the modification whose content the last reload read;
\* onWatcher: a step of a reload has executed on the watcher thread;
\* overlap: a step of a reload has executed while run() was in progress
WInit ==
    /\ \E r \in Runners, watchdog \in BOOLEAN :
          /\ r # "sandbox" => watchdog
          /\ wt = [runner |-> r,
                   up |-> ~(r = "sandbox" /\ watchdog),
                   watching |-> r # "sandbox",
                   events |-> 0, queue |-> 0, uiPc |-> "idle", wPc |-> "idle",
                   loaded |-> 0, reloads |-> 0,
                   onWatcher |-> FALSE, overlap |-> FALSE]
    /\ ctl = "off" /\ rd = "off" /\ batch = "off" /\ scope = "off" /\ split = "off"

\* the file is modified; where a watcher thread runs, it calls the callback
Modified ==
    /\ wt.wPc = "idle" /\ wt.events < MaxEvents
    /\ wt' = IF ~(wt.up /\ wt.watching)
             THEN [wt EXCEPT !.events = @ + 1]
             ELSE IF wt.runner = "explorer"
             THEN [wt EXCEPT !.events = @ + 1, !.wPc = "params"]
             ELSE [wt EXCEPT !.events = @ + 1, !.queue = @ + 1]
    /\ UNCHANGED <<svars, pvars, gvars, ctl, rd, batch, scope, split>>

\* the watcher thread executes the next step of the reload it is in
WatcherReloadStep ==
    /\ wt.wPc # "idle"
    /\ wt' = [wt EXCEPT
                !.wPc = IF @ = "params" THEN "prog"
                        ELSE IF @ = "prog" THEN "init" ELSE "idle",
                !.loaded = IF wt.wPc = "prog" THEN wt.events ELSE @,
                !.reloads = IF wt.wPc = "init" THEN @ + 1 ELSE @,
                !.onWatcher = TRUE,
                !.overlap = @ \/ wt.uiPc = "run"]
    /\ UNCHANGED <<svars, pvars, gvars, ctl, rd, batch, scope, split>>

\* the UI thread takes a reload from the idle queue and runs it
IdleReload ==
    /\ wt.up /\ wt.uiPc = "idle" /\ wt.queue > 0
    /\ wt' = [wt EXCEPT !.queue = @ - 1, !.loaded = wt.events, !.reloads = @ + 1]
    /\ UNCHANGED <<svars, pvars, gvars, ctl, rd, batch, scope, split>>

\* the draw handler calls script.run(...) on the UI thread
BeginRun ==
    /\ wt.up /\ wt.uiPc = "idle"
    /\ wt' = [wt EXCEPT !.uiPc = "run"]
    /\ UNCHANGED <<svars, pvars, gvars, ctl, rd, batch, scope, split>>

\* run() returns
EndRun ==
    /\ wt.uiPc = "run"
    /\ wt' = [wt EXCEPT !.uiPc = "idle"]
    /\ UNCHANGED <<svars, pvars, gvars, ctl, rd, batch, scope, split>>

InitWatch == SOff /\ POff /\ GOff /\ WInit

SpecWatch ==
    /\ InitWatch
    /\ [][Modified \/ WatcherReloadStep \/ IdleReload \/ BeginRun \/ EndRun]_vars

\* C14: in every runner a file-change notification only enqueues a reload
\* on the UI thread's idle queue: no step of a reload executes on the
\* watcher thread, and none executes while run() is in progress.
C14_ReloadOnUiThread == wt.up => (~wt.onWatcher /\ ~wt.overlap)

(***************************************************************************)
(* The reader thread (ReaderThread.run in cairo_sandbox.py,                *)
(* cairo_explorer.py and wayland_runner.py) and the frames that read its   *)
(* env attribute.  A line is the sequence of the keys of a JSON object,    *)
(* or the one-token line <<"!">> that json.loads rejects; a mapping gives  *)
(* each key the position of its last occurrence, 0 when absent.  Mappings  *)
(* are objects on a heap, so that a frame holding a reference sees a       *)
(* modification in place.                                                  *)
(***************************************************************************)
\* most lines arriving on the input channel, most keys on a line
MaxLines == 2
MaxLineLen == 2

Keys == {"a", "b"}

Lines == {<<"!">>} \cup UNION {[1..n -> Keys] : n \in 0..MaxLineLen}

WellFormed(l) == \A i \in DOMAIN l : l[i] \in Keys

\* the mapping json.loads has built after n keys of line l
Loads(l, n) ==
    [k \in Keys |-> IF \E i \in 1..n : l[i] = k
                    THEN CHOOSE i \in 1..n : l[i] = k /\ \A j \in (i+1)..n : l[j] # k
                    ELSE 0]

\* a reader that writes each parsed key into the mapping the slot refers to
StoreInPlace(heap, slot, value, done) ==
    [heap |-> [heap EXCEPT ![slot] = value], slot |-> slot]

\* self.env = json.loads(...): the assignment happens once json.loads has
\* returned, and binds the attribute to the new mapping
Store(heap, slot, value, done) ==
    IF done THEN [heap |-> Append(heap, value), slot |-> Len(heap) + 1]
    ELSE [heap |-> heap, slot |-> slot]

\* arrived: the lines that have arrived on stdin; pos: how many the reader
\* has taken; pc: "read" (in readline), "parse" (in json.loads) or "dead"
\* (run() has raised); cur, n: the line being parsed and the keys done;
\* heap, slot: the mappings and the one env refers to; frame: the running
\* frame, the mapping its stdin binding refers to and that mapping's
\* content when the frame began
RInit ==
    /\ rd = [arrived |-> <<>>, pos |-> 0, pc |-> "read", cur |-> <<>>, n |-> 0,
             heap |-> <<Loads(<<>>, 0)>>, slot |-> 1,
             frame |-> [on |-> FALSE, id |-> 1, seen |-> Loads(<<>>, 0)]]
    /\ ctl = "off" /\ wt = "off" /\ batch = "off" /\ scope = "off" /\ split = "off"

\* a line arrives on the input channel
Arrive(l) ==
    /\ Len(rd.arrived) < MaxLines
    /\ rd' = [rd EXCEPT !.arrived = Append(@, l)]
    /\ UNCHANGED <<svars, pvars, gvars, ctl, wt, batch, scope, split>>

\* sys.stdin.readline() returns the next line
ReadLine ==
    /\ rd.pc = "read" /\ rd.pos < Len(rd.arrived)
    /\ rd' = [rd EXCEPT !.pos = @ + 1, !.pc = "parse",
                        !.cur = rd.arrived[rd.pos + 1], !.n = 0]
    /\ UNCHANGED <<svars, pvars, gvars, ctl, wt, batch, scope, split>>

\* json.loads takes the next key, raises, or returns and env is assigned
ParseStep ==
    /\ rd.pc = "parse"
    /\ IF ~WellFormed(rd.cur)
       THEN rd' = [rd EXCEPT !.pc = "dead"]
       ELSE LET n2 == IF rd.n < Len(rd.cur) THEN rd.n + 1 ELSE rd.n
                done == n2 = Len(rd.cur)
                st == Store(rd.heap, rd.slot, Loads(rd.cur, n2), done)
            IN rd' = [rd EXCEPT !.n = n2, !.heap = st.heap, !.slot = st.slot,
                                !.pc = IF done THEN "read" ELSE "parse"]
    /\ UNCHANGED <<svars, pvars, gvars, ctl, wt, batch, scope, split>>

\* Script.run builds the frame's environment: 'stdin': self.reader.env
BeginFrame ==
    /\ ~rd.frame.on
    /\ rd' = [rd EXCEPT !.frame = [on |-> TRUE, id |-> rd.slot,
                                   seen |-> rd.heap[rd.slot]]]
    /\ UNCHANGED <<svars, pvars, gvars, ctl, wt, batch, scope, split>>

\* the frame returns
EndFrame ==
    /\ rd.frame.on
    /\ rd' = [rd EXCEPT !.frame.on = FALSE]
    /\ UNCHANGED <<svars, pvars, gvars, ctl, wt, batch, scope, split>>

InitReader == SOff /\ POff /\ GOff /\ RInit

SpecReader ==
    /\ InitReader
    /\ [][(\E l \in Lines : Arrive(l)) \/ ReadLine \/ ParseStep
          \/ BeginFrame \/ EndFrame]_vars

\* the operating system schedules the reader thread, and the UI keeps
\* drawing frames
SpecReaderFair ==
    /\ SpecReader
    /\ WF_vars(ReadLine) /\ WF_vars(ParseStep)
    /\ WF_vars(BeginFrame) /\ WF_vars(EndFrame)

\* C15: under every interleaving of the reader thread and a frame, the
\* mapping the frame's stdin binding refers to is, in full, the parse of
\* one line that arrived (or the initial empty mapping), and it is what it
\* was when the frame began.
C15_WholeSnapshot ==
    rd.frame.on =>
        /\ rd.heap[rd.frame.id] = rd.frame.seen
        /\ \/ rd.frame.seen = Loads(<<>>, 0)
           \/ \E i \in 1..rd.pos :
                 /\ WellFormed(rd.arrived[i])
                 /\ rd.frame.seen = Loads(rd.arrived[i], Len(rd.arrived[i]))

\* a frame holds the mapping of an earlier line while the reader is in the
\* middle of parsing a two-key line
C15_Witness ==
    /\ rd.frame.on /\ rd.frame.id > 1
    /\ rd.pc = "parse" /\ rd.n = 1 /\ Len(rd.cur) = 2

\* C16: the reader reads the input continuously: the mapping env refers to
\* eventually is, and stays, the parse of the last well-formed line that
\* arrived.
C16_EventuallyLatest ==
    <>[](LET good == {i \in 1..Len(rd.arrived) : WellFormed(rd.arrived[i])}
         IN  rd.heap[rd.slot] =
                IF good = {} THEN Loads(<<>>, 0)
                ELSE LET last == CHOOSE i \in good : \A j \in good : j <= i
                     IN Loads(rd.arrived[last], Len(rd.arrived[last])))

(***************************************************************************)
(* The headless runner, offline.py __main__: the script is loaded with     *)
(* halt_on_exc set, the surface wrapper is built from the arguments, and   *)
(* the mode's method runs inside `try ... except UserError`.               *)
(***************************************************************************)
\* most lines on the headless runner's input
MaxBatchLines == 2

Modes == {"nostdin", "oneshot", "continuous", "sequence", "slideshow"}

Formats == {"png", "ps", "pdf", "svg", "script"}

\* pc: the next step of __main__; exit: "running", "ok" (status 0),
\* "usererror" (the message printed, exit(-1)) or "traceback" (an uncaught
\* exception: the interpreter prints the traceback and exits with 1);
\* cause: the exception that ended the run; reads: lines taken from stdin;
\* frames: for each call of script.run that returned, the line whose
\* mapping reader.env held (0: the initial empty mapping); writes: calls
\* of wrapper.write
BInit ==
    /\ \E m \in Modes, f \in Formats, o \in BOOLEAN, ie \in BOOLEAN,
          re \in BOOLEAN, n \in 0..MaxBatchLines :
          batch = [mode |-> m, format |-> f, output |-> o, initRaises |-> ie,
                   renderRaises |-> re, lines |-> n, pc |-> "reload",
                   wrapper |-> "none", exit |-> "running", cause |-> "none",
                   reads |-> 0, frames |-> <<>>, writes |-> 0]
    /\ ctl = "off" /\ wt = "off" /\ rd = "off" /\ scope = "off" /\ split = "off"

\* script.reload(params.ParameterGroup()) with halt_on_exc: the init part
\* runs outside any try
BatchReload ==
    /\ batch.pc = "reload"
    /\ batch' = IF batch.initRaises
                THEN [batch EXCEPT !.pc = "done", !.exit = "traceback",
                                   !.cause = "script"]
                ELSE [batch EXCEPT !.pc = "wrapper"]
    /\ UNCHANGED <<svars, pvars, gvars, ctl, wt, rd, scope, split>>

\* SurfaceWrapper.from_args(args), also outside the try: only
\* PngSurfaceWrapper is defined, "script" falls through every branch, and
\* PngSurfaceWrapper.__init__ raises UserError without an output path and
\* reads the undefined name output_dir in sequence mode
BatchWrapper ==
    /\ batch.pc = "wrapper"
    /\ batch' =
         IF batch.format \in {"ps", "pdf", "svg"}
         THEN [batch EXCEPT !.pc = "done", !.exit = "traceback", !.cause = "NameError"]
         ELSE IF batch.format = "script"
         THEN [batch EXCEPT !.pc = "mode", !.wrapper = "None"]
         ELSE IF ~batch.output
         THEN [batch EXCEPT !.pc = "done", !.exit = "traceback", !.cause = "UserError"]
         ELSE IF batch.mode = "sequence"
         THEN [batch EXCEPT !.pc = "done", !.exit = "traceback", !.cause = "NameError"]
         ELSE [batch EXCEPT !.pc = "mode", !.wrapper = "png"]
    /\ UNCHANGED <<svars, pvars, gvars, ctl, wt, rd, scope, split>>

\* the mode's method, to its end.  nostdin renders and writes; oneshot
\* takes a line and calls reader.update(line), which is defined without
\* self and raises TypeError, then writes; the other modes call
\* sys.stdin(), which raises TypeError: continuous before its try,
\* slideshow inside it.  Nothing is raised that `except UserError` catches.
BatchMode ==
    /\ batch.pc = "mode"
    /\ batch' =
         IF batch.wrapper = "None"
         THEN [batch EXCEPT !.pc = "done", !.exit = "traceback",
                            !.cause = "AttributeError"]
         ELSE IF batch.mode = "nostdin"
         THEN IF batch.renderRaises
              THEN [batch EXCEPT !.pc = "done", !.exit = "traceback",
                                 !.cause = "script", !.writes = @ + 1]
              ELSE [batch EXCEPT !.pc = "done", !.exit = "ok",
                                 !.frames = Append(@, 0), !.writes = @ + 1]
         ELSE IF batch.mode = "oneshot"
         THEN [batch EXCEPT !.pc = "done", !.exit = "traceback",
                            !.cause = "TypeError",
                            !.reads = IF batch.lines > 0 THEN 1 ELSE 0,
                            !.writes = @ + 1]
         ELSE [batch EXCEPT !.pc = "done", !.exit = "traceback",
                            !.cause = "TypeError",
                            !.writes = IF batch.mode = "slideshow" THEN @ + 1 ELSE @]
    /\ UNCHANGED <<svars, pvars, gvars, ctl, wt, rd, scope, split>>

InitBatch == SOff /\ POff /\ GOff /\ BInit

SpecBatch == InitBatch /\ [][BatchReload \/ BatchWrapper \/ BatchMode]_vars

\* C17: in the headless runner an exception of the script's init or render
\* part does not end the process; the run ends normally or by a UserError
\* that is reported.
C17_OnlyUserErrorEnds == batch.exit \in {"running", "ok", "usererror"}

\* C18: with a script that does not raise and a PNG output path, nostdin
\* renders once without reading and writes once, oneshot takes one line
\* and renders once with that line's mapping, and the other modes render
\* once per line, in order, each frame with its own line's mapping.
C18_FramePerLine ==
    (/\ batch.pc = "done" /\ ~batch.initRaises /\ ~batch.renderRaises
     /\ batch.format = "png" /\ batch.output)
    => IF batch.mode = "nostdin"
       THEN batch.reads = 0 /\ batch.frames = <<0>> /\ batch.writes = 1
       ELSE IF batch.mode = "oneshot"
       THEN batch.lines > 0 => (batch.reads = 1 /\ batch.frames = <<1>>)
       ELSE batch.frames = [i \in 1..batch.lines |-> i]

(***************************************************************************)
(* Save and Box scopes (helpers.py) on a drawing context of which only the *)
(* depth of saved states is kept, inside Script.run.  The script's body    *)
(* may enter and leave scopes, call cr.save() and cr.restore() itself (a   *)
(* restore only against a save of its own in the same scope), and raise.   *)
(***************************************************************************)
\* most scopes a script nests, most saves of its own it leaves open in one
MaxNest == 2
MaxOwn == 1

\* the depth beyond which the script opens nothing more (saves left open
\* across scope exits would otherwise grow it without end)
DepthCap == scope.base + 1 + MaxNest + MaxOwn

\* a scope whose __exit__ restores only when the body returned
ExitOnReturnOnly(kind, byExc) == IF byExc THEN 0 ELSE 1

\* the calls of cr.restore() by Save.__exit__ and Box.__exit__
ScopeExit(kind, byExc) == 1

\* halt: halt_on_exc; pc: "before", "script", "overlay" or "after" run();
\* depth, base: the context's saved states now and before run(); stack:
\* the open scopes, run()'s own first, each with the saves of the script
\* still open in it; exc: an exception is propagating; last: the scope
\* that exited last, with its calls of save and restore; unwound: script
\* scopes left by an exception; unbalanced: a scope or the script ended
\* with a save of the script's own still open
ScopeInit ==
    /\ \E h \in BOOLEAN, d \in 0..1 :
          scope = [halt |-> h, pc |-> "before", depth |-> d, base |-> d,
                   stack |-> <<>>, exc |-> FALSE, raised |-> FALSE,
                   last |-> [kind |-> "none", saves |-> 0, restores |-> 0],
                   unwound |-> 0, unbalanced |-> FALSE]
    /\ ctl = "off" /\ wt = "off" /\ rd = "off" /\ batch = "off" /\ split = "off"

\* run() opens its first `with helpers.Save(cr)` and executes the script
RunEnter ==
    /\ scope.pc = "before"
    /\ scope' = [scope EXCEPT !.pc = "script", !.depth = @ + 1,
                              !.stack = <<[kind |-> "Save", own |-> 0]>>]
    /\ UNCHANGED <<svars, pvars, gvars, ctl, wt, rd, batch, split>>

\* Save.__enter__ / Box.__enter__: one cr.save()
ScopeEnter(kind) ==
    /\ scope.pc = "script" /\ ~scope.exc /\ Len(scope.stack) < 1 + MaxNest
    /\ scope.depth < DepthCap
    /\ scope' = [scope EXCEPT !.depth = @ + 1,
                              !.stack = Append(@, [kind |-> kind, own |-> 0])]
    /\ UNCHANGED <<svars, pvars, gvars, ctl, wt, rd, batch, split>>

\* the script calls cr.save()
OwnSave ==
    /\ scope.pc = "script" /\ ~scope.exc
    /\ scope.stack[Len(scope.stack)].own < MaxOwn
    /\ scope.depth < DepthCap
    /\ scope' = [scope EXCEPT !.depth = @ + 1,
                              !.stack[Len(scope.stack)].own = @ + 1]
    /\ UNCHANGED <<svars, pvars, gvars, ctl, wt, rd, batch, split>>

\* the script calls cr.restore()
OwnRestore ==
    /\ scope.pc = "script" /\ ~scope.exc
    /\ scope.stack[Len(scope.stack)].own > 0
    /\ scope' = [scope EXCEPT !.depth = @ - 1,
                              !.stack[Len(scope.stack)].own = @ - 1]
    /\ UNCHANGED <<svars, pvars, gvars, ctl, wt, rd, batch, split>>

\* the script raises
BodyRaise ==
    /\ scope.pc = "script" /\ ~scope.exc
    /\ scope' = [scope EXCEPT !.exc = TRUE, !.raised = TRUE]
    /\ UNCHANGED <<svars, pvars, gvars, ctl, wt, rd, batch, split>>

\* a scope of the script exits, its body having returned or raised
ScopeLeave ==
    /\ scope.pc = "script" /\ Len(scope.stack) > 1
    /\ LET top == scope.stack[Len(scope.stack)]
           n == ScopeExit(top.kind, scope.exc)
       IN scope' = [scope EXCEPT
                      !.depth = @ - n,
                      !.stack = SubSeq(@, 1, Len(@) - 1),
                      !.last = [kind |-> top.kind, saves |-> 1, restores |-> n],
                      !.unwound = IF scope.exc THEN @ + 1 ELSE @,
                      !.unbalanced = @ \/ top.own > 0]
    /\ UNCHANGED <<svars, pvars, gvars, ctl, wt, rd, batch, split>>

\* the script returns to run() or its exception reaches run(): with
\* halt_on_exc the exception leaves through run()'s Save scope and run(),
\* otherwise it is caught inside the scope, which then exits normally
ScriptEnd ==
    /\ scope.pc = "script" /\ Len(scope.stack) = 1
    /\ LET top == scope.stack[1]
           out == scope.exc /\ scope.halt
           n == ScopeExit(top.kind, out)
       IN scope' = [scope EXCEPT
                      !.pc = IF out THEN "after" ELSE "overlay",
                      !.exc = out,
                      !.depth = @ - n,
                      !.stack = <<>>,
                      !.last = [kind |-> top.kind, saves |-> 1, restores |-> n],
                      !.unbalanced = @ \/ top.own > 0]
    /\ UNCHANGED <<svars, pvars, gvars, ctl, wt, rd, batch, split>>

\* the rest of run(): the residual path and the current point in a Save
\* scope each, and the error text in a Box
Overlays ==
    /\ scope.pc = "overlay"
    /\ LET n == ScopeExit("Save", FALSE)
           b == IF scope.raised THEN 1 - ScopeExit("Box", FALSE) ELSE 0
       IN scope' = [scope EXCEPT
                      !.pc = "after",
                      !.depth = @ + (1 - n) + (1 - n) + b,
                      !.last = [kind |-> IF scope.raised THEN "Box" ELSE "Save",
                                saves |-> 1,
                                restores |-> IF scope.raised
                                             THEN ScopeExit("Box", FALSE) ELSE n]]
    /\ UNCHANGED <<svars, pvars, gvars, ctl, wt, rd, batch, split>>

InitScope == SOff /\ POff /\ GOff /\ ScopeInit

SpecScope ==
    /\ InitScope
    /\ [][RunEnter \/ (\E k \in {"Save", "Box"} : ScopeEnter(k)) \/ OwnSave
          \/ OwnRestore \/ BodyRaise \/ ScopeLeave \/ ScriptEnd \/ Overlays]_vars

\* C19: a Save or Box scope issues exactly one restore for its one save
\* when it exits, whether its body returned or raised; so after run() the
\* context's save depth is the depth before run() whenever the script left
\* no save of its own open, whether or not the script raised.
C19_ScopesBalanced ==
    /\ scope.last.kind # "none" => (scope.last.saves = 1 /\ scope.last.restores = 1)
    /\ (scope.pc = "after" /\ ~scope.unbalanced) => scope.depth = scope.base

\* run() has returned after the script raised inside two nested scopes and
\* left no save of its own open
C19_Witness ==
    /\ scope.pc = "after" /\ scope.raised /\ ~scope.unbalanced
    /\ scope.unwound = 2

(***************************************************************************)
(* Rect (helpers.py): a centre, a width and a height.  Lengths are even    *)
(* integers, so that the products with 0.5 are exact.                      *)
(***************************************************************************)
\* the longest side of a rectangle is 2 * MaxSide
MaxSide == 2

Sides == {2 * n : n \in 0..MaxSide}

Rect(center, width, height) == [center |-> center, width |-> width, height |-> height]

from_top_left(top_left, width, height) ==
    Rect([x |-> top_left.x + width \div 2, y |-> top_left.y + height \div 2],
         width, height)

northwest(r) == [x |-> r.center.x - r.width \div 2, y |-> r.center.y - r.height \div 2]

split_left(r, pos) == from_top_left(northwest(r), pos, r.height)

\* a right part that keeps the whole width
split_right_whole(r, pos) ==
    from_top_left([x |-> northwest(r).x + pos, y |-> northwest(r).y],
                  r.width, r.height)

split_right(r, pos) ==
    from_top_left([x |-> northwest(r).x + pos, y |-> northwest(r).y],
                  r.width - pos, r.height)

split_top(r, pos) == from_top_left(northwest(r), r.width, pos)

split_bottom(r, pos) ==
    from_top_left([x |-> northwest(r).x, y |-> northwest(r).y + pos],
                  r.width, r.height - pos)

split_vertical(r, pos) == <<split_left(r, pos), split_right(r, pos)>>

split_horizontal(r, pos) == <<split_top(r, pos), split_bottom(r, pos)>>

\* r: the rectangle; dir: "none" or the split that was called; p: its
\* offset; a, b: the pair it returned
RectInit ==
    /\ \E cx \in 0..1, cy \in 0..1, w \in Sides, h \in Sides :
          LET r == Rect([x |-> cx, y |-> cy], w, h)
          IN split = [r |-> r, dir |-> "none", p |-> 0, a |-> r, b |-> r]
    /\ ctl = "off" /\ wt = "off" /\ rd = "off" /\ batch = "off" /\ scope = "off"

CallSplit(dir, p) ==
    /\ LET ab == IF dir = "vertical" THEN split_vertical(split.r, p)
                 ELSE split_horizontal(split.r, p)
       IN split' = [split EXCEPT !.dir = dir, !.p = p, !.a = ab[1], !.b = ab[2]]
    /\ UNCHANGED <<svars, pvars, gvars, ctl, wt, rd, batch, scope>>

InitSplit == SOff /\ POff /\ GOff /\ RectInit

SpecSplit ==
    /\ InitSplit
    /\ [][\E dir \in {"vertical", "horizontal"}, p \in Sides \cup {2 * MaxSide + 2} :
             CallSplit(dir, p)]_vars

C21_PressOriginIsPress ==
    (ctl.last.ev = "press" /\ ctl.last.before.kind = "Hover") =>
        /\ ctl.cursor.kind = "DragBegin"
        /\ ctl.cursor.origin = <<ctl.cursor.pos>>

\* C22: a press received in DragEnd starts a new gesture: the next state is
\* DragBegin at the position of the press.
C22_PressAfterDragEnd ==
    (ctl.last.ev = "press" /\ ctl.last.before.kind = "DragEnd") =>
        ctl.cursor.kind = "DragBegin"

\* C23: in every reachable cursor state each of press, release and move
\* returns a next state without raising, and that state is a function of
\* the current state and the event.
C23_TotalTransitions ==
    ctl.last.ev # "none" =>
        /\ ctl.last.exc = "none"
        /\ \E p \in PointerPositions :
              ctl.cursor = Transition(ctl.last.before, ctl.last.ev, p).cursor

\* C24: every cursor state other than Hover carries an origin, which an
\* event of the same gesture leaves unchanged (the relative offset is the
\* position minus that origin).
C24_OriginCarried ==
    /\ ctl.cursor.kind # "Hover" => Len(ctl.cursor.origin) = 1
    /\ (/\ ctl.last.exc = "none"
        /\ ctl.last.before.kind \in {"DragBegin", "DragMove"}
        /\ ctl.cursor.kind # "Hover")
       => ctl.cursor.origin = ctl.last.before.origin

\* C25: the cursor enters Click only by a release received in DragBegin,
\* enters DragEnd only by a release received in DragMove, and enters
\* DragMove only by a move received in DragBegin or DragMove, so that a
\* gesture ending in DragEnd has passed through DragBegin and DragMove.
C25_EntryPaths ==
    ctl.last.exc = "none" =>
        /\ ctl.cursor.kind = "Click" =>
              (ctl.last.ev = "release" /\ ctl.last.before.kind = "DragBegin")
        /\ ctl.cursor.kind = "DragEnd" =>
              (ctl.last.ev = "release" /\ ctl.last.before.kind = "DragMove")
        /\ ctl.cursor.kind = "DragMove" =>
              (ctl.last.ev = "move"
               /\ ctl.last.before.kind \in {"DragBegin", "DragMove"})

\* press, move, move and release, starting in Hover, have ended a drag in
\* DragEnd
C25_Witness ==
    /\ ctl.cursor.kind = "DragEnd" /\ ctl.last.exc = "none"
    /\ ctl.gest.step = 4

(***************************************************************************)
(* ValueController (controller.py) binding a DragController to an          *)
(* InfiniteParameter or an AngleParameter (params/gtk.py).  Values are     *)
(* integers; angles are in eighths of a turn (TwoPi), so the pointer       *)
(* positions are the four whose angles are multiples of that unit.         *)
(***************************************************************************)
\* the largest magnitude an Infinite value is followed to
MaxValue == 3

DragPositions == {<<0, 0>>, <<1, 0>>, <<1, 1>>, <<0, 1>>}

\* cmath.polar(complex(x, y))[1]
PolarAngle(p) ==
    IF p = <<1, 1>> THEN 1 ELSE IF p = <<0, 1>> THEN 2 ELSE 0

\* InfiniteParameter.begin / AngleParameter.begin
ParamBegin(pm) == [pm EXCEPT !.saved = pm.value]

\* an update that starts from the current value instead of the saved one
InfiniteUpdateFromCurrent(pm, c) ==
    [pm EXCEPT !.value = pm.value - pm.rate * (c.pos[2] - c.origin[1][2])]

\* InfiniteParameter.updateValue: cursor.rel.y is pos.y - origin.y
InfiniteUpdateValue(pm, c) ==
    [pm EXCEPT !.value = pm.saved - pm.rate * (c.pos[2] - c.origin[1][2])]

\* AngleParameter.updateValue
AngleUpdateValue(pm, c) ==
    [pm EXCEPT !.value = (PolarAngle(c.pos) + pm.saved) % TwoPi]

\* the callback of ValueController that DragController dispatches to
ValueCallback(pm, cb, c) ==
    IF cb = "begin" THEN ParamBegin(pm)
    ELSE IF cb \in {"drag", "drop"}
         THEN IF pm.kind = "Infinite" THEN InfiniteUpdateValue(pm, c)
              ELSE AngleUpdateValue(pm, c)
         ELSE pm

\* param: the parameter's kind, rate, value and saved_value; cursor: the
\* DragController's cursor; last: the event handled last and the exception
\* that left its handler; atBegin: the value when the cursor last entered
\* DragBegin; drags: the drags that have ended in DragEnd
VInit ==
    /\ \E k \in {"Infinite", "Angle"}, rate \in {1, 2} :
          ctl = [param |-> [kind |-> k, rate |-> rate, value |-> 0, saved |-> 0],
                 cursor |-> Cursor("Hover", <<0, 0>>, <<>>),
                 last |-> [ev |-> "none", exc |-> "none"],
                 atBegin |-> 0, drags |-> 0]
    /\ wt = "off" /\ rd = "off" /\ batch = "off" /\ scope = "off" /\ split = "off"

\* DragController.button_press / button_release / mouse_move with a
\* ValueController as callbacks
DragEvent(ev, p) ==
    LET r == Transition(ctl.cursor, ev, p)
        pm == IF r.exc # "none" THEN ctl.param
              ELSE ValueCallback(ctl.param, Callback(r.cursor), r.cursor)
    IN
    /\ pm.value \in -MaxValue..MaxValue
    /\ ctl' = [param |-> pm, cursor |-> r.cursor,
               last |-> [ev |-> ev, exc |-> r.exc],
               atBegin |-> IF r.exc = "none" /\ r.cursor.kind = "DragBegin"
                           THEN ctl.param.value ELSE ctl.atBegin,
               drags |-> IF r.exc = "none" /\ r.cursor.kind = "DragEnd"
                            /\ ctl.drags < 2
                         THEN ctl.drags + 1 ELSE ctl.drags]
    /\ UNCHANGED <<svars, pvars, gvars, wt, rd, batch, scope, split>>

InitValue == SOff /\ POff /\ GOff /\ VInit

SpecValue ==
    /\ InitValue
    /\ [][\E ev \in PointerEvents, p \in DragPositions : DragEvent(ev, p)]_vars

\* C26: during a drag on an Infinite parameter, after each drag-move and
\* the drag-end the value is the value cached at the gesture's drag-begin
\* minus rate times (pos.y - origin.y), whatever positions were visited,
\* and it is not clamped.
C26_InfiniteValue ==
    (/\ ctl.param.kind = "Infinite" /\ ctl.last.exc = "none"
     /\ ctl.cursor.kind \in {"DragMove", "DragEnd"})
    => ctl.param.value =
          ctl.atBegin - ctl.param.rate * (ctl.cursor.pos[2] - ctl.cursor.origin[1][2])

\* a second drag on an Infinite parameter, begun at a value other than the
\* default, has ended below every value seen before
C26_Witness ==
    /\ ctl.param.kind = "Infinite" /\ ctl.last.exc = "none"
    /\ ctl.cursor.kind = "DragEnd" /\ ctl.drags = 2
    /\ ctl.atBegin = -2 /\ ctl.param.value = -3

\* C27: during a drag on an Angle parameter, each drag-move and the
\* drag-end set the value to the angle of the pointer position about the
\* widget's origin, wrapped into [0, 2*pi): it depends on the position
\* only, and never leaves [0, 2*pi).
C27_AbsoluteAngle ==
    (/\ ctl.param.kind = "Angle" /\ ctl.last.exc = "none"
     /\ ctl.cursor.kind \in {"DragMove", "DragEnd"})
    => /\ ctl.param.value = PolarAngle(ctl.cursor.pos) % TwoPi
       /\ ctl.param.value \in 0..(TwoPi - 1)

\* C28: under the text backend the construction of a Numeric whose default
\* lies outside [lower, upper] fails, and every value that value
\* resolution yields for a Numeric, by default or by override, lies within
\* [lower, upper].
C28_NumericInBounds ==
    (pbackend = "text" /\ pdecl.kind = "Numeric") =>
        LET lo == NumOf(pdecl.lower)
            hi == NumOf(pdecl.upper)
            d == NumOf(pdecl.default)
        IN  /\ (d < lo \/ hi < d) => pparam.exc # "none"
            /\ (presult.done /\ presult.out.exc = "none") =>
                  (lo <= NumOf(presult.out.val) /\ NumOf(presult.out.val) <= hi)

\* C29: with halt_on_exc false, after any sequence of reload() calls
\* load_error is set exactly when the init part of the most recent reload
\* raised; a reload whose init part completes leaves it clear even if an
\* earlier reload had failed.
C29_LoadErrorIsLatest ==
    (~halt_on_exc /\ call.op = "reload" /\ call.exc = "none" /\ prog # <<>>) =>
        ((load_error # "None")
            <=> (ExecInit(Backend(variant), prog[1], NewGroup).exc # "none"))

\* the watcher thread is scheduled, a frame ends, and the main loop runs an
\* idle callback once the UI thread is idle often enough
SpecWatchFair ==
    /\ SpecWatch
    /\ WF_vars(WatcherReloadStep) /\ WF_vars(EndRun) /\ SF_vars(IdleReload)

\* C30: every modification of the watched file schedules exactly one
\* reload, and after the last modification a reload has run on the UI
\* thread, and none on the watcher thread, that read the content written
\* by that modification.
C30_ReloadAfterLastChange ==
    <>[](wt.loaded = wt.events /\ wt.reloads = wt.events /\ ~wt.onWatcher)

====
